---- MODULE Spec2Model ----
(***************************************************************************)
(* PerformanceMetrics (static/js/performanceMetrics.js) and                *)
(* HTMLReportGenerator (static/js/htmlReport.js) as one state machine.     *)
(* Every method is one action; the caller (the orchestrator) picks the     *)
(* method and its arguments.  JavaScript objects are modelled with their   *)
(* identity where the code shares them: the array metrics.interactions is  *)
(* one object, and a report that holds it holds the array, not a copy.     *)
(*                                                                         *)
(* null is the empty tuple and a present value v is <<v>>, so that a       *)
(* nullable field can be compared with either.                             *)
(***************************************************************************)
EXTENDS Integers, Sequences, FiniteSets, TLC

\* ------------------------------------------------------------------ bounds
MaxClock == 2        \* the clock runs over 0..MaxClock
MaxStarts == 3       \* startInteraction calls in one run
MaxSamples == 3      \* recordComponentLoad + recordElementTiming calls in one run
MaxDuration == 2     \* duration samples are drawn from 1..MaxDuration
MaxScreenshots == 2  \* addScreenshot calls in one run
TicksPerDay == 2     \* clock ticks that share one calendar date

\* ------------------------------------------------------------------ values
Null == <<>>
Some(v) == <<v>>

\* Own keys a caller can use, and a key every object literal inherits from
\* Object.prototype ({}.constructor is the function Object).
OwnNames == {"header", "footer"}
ObjectPrototypeKeys == {"constructor"}
SeriesNames == OwnNames \cup ObjectPrototypeKeys
InteractionNames == {"click", "submit"}
Durations == 1..MaxDuration

\* The array object created at `interactions: []`; whoever holds this value
\* holds the array itself.
InteractionsArray == [ref |-> "metrics.interactions"]

\* new Date().toISOString(): the time as a formatted string, not a number.
ToISOString(t) == [iso |-> t]

\* isoString.slice(0, 10): the calendar date of the formatted time.
DatePart(s) == [date |-> s.iso \div TicksPerDay]

VARIABLES
  now,                 \* the time performance.now() and new Date() read
  interactions,        \* contents of the array metrics.interactions
  currentInteraction,  \* this.currentInteraction: Null or Some(record)
  componentLoadTimes,  \* metrics.componentLoadTimes: own keys -> samples
  elementTimings,      \* metrics.elementTimings: own keys -> samples
  nextId,              \* identity of the next object startInteraction creates
  lastReport,          \* the report generatePerformanceReport returned last
  returned,            \* the interactions that report showed when it was returned
  componentCalls,      \* per name, the durations recordComponentLoad was called with
  elementCalls,        \* per name, the durations recordElementTiming was called with
  reportsSinceRecording, \* reports returned after the last recording call (0, 1, or 2 for more)
  lastOp,              \* the method called last
  outcome,             \* how it ended: "ok" or the error thrown
  lastStats,           \* argument and result of the last direct getStats call
  screenshots,         \* HTMLReportGenerator.screenshots
  performanceData,     \* HTMLReportGenerator.performanceData
  validationResults,   \* HTMLReportGenerator.validationResults
  document,            \* what the last generateReportHTML returned (Null: nothing)
  download             \* the file the last downloadReport delivered (Null: nothing)

collector == <<interactions, currentInteraction, componentLoadTimes, elementTimings>>
metricsVars == <<interactions, currentInteraction, componentLoadTimes, elementTimings,
                 nextId, lastReport, returned, componentCalls, elementCalls,
                 reportsSinceRecording, lastStats>>
builderVars == <<screenshots, performanceData, validationResults, document, download>>
vars == <<now, metricsVars, builderVars, lastOp, outcome>>

\* ------------------------------------------------------------ arithmetic
RECURSIVE Sum(_)
Sum(s) == IF s = <<>> THEN 0 ELSE Head(s) + Sum(Tail(s))

Range(s) == {s[i] : i \in DOMAIN s}

RECURSIVE Gcd(_, _)
Gcd(a, b) == IF b = 0 THEN a ELSE Gcd(b, a % b)

\* a / b in real arithmetic (b > 0, a >= 0), as the fraction in lowest terms
Divide(a, b) == LET g == Gcd(a, b) IN [num |-> a \div g, den |-> b \div g]

MathMin(data) == CHOOSE x \in Range(data) : \A y \in Range(data) : x <= y
MathMax(data) == CHOOSE x \in Range(data) : \A y \in Range(data) : x >= y

\* ------------------------------------------------------ PerformanceMetrics
\* obj[name] on an object literal: an own key (an array here), else an
\* inherited value, else undefined.
Lookup(obj, name) ==
  IF name \in DOMAIN obj THEN "array"
  ELSE IF name \in ObjectPrototypeKeys THEN "inherited"
  ELSE "undefined"

\* getStats without its guard: an empty argument gets a summary of no samples.
getStatsUnguarded(data) ==
  IF data = Null \/ Len(data[1]) = 0
    THEN Some([min |-> "Infinity", max |-> "-Infinity", avg |-> "NaN", count |-> 0])
    ELSE Some([min   |-> MathMin(data[1]),
               max   |-> MathMax(data[1]),
               avg   |-> Divide(Sum(data[1]), Len(data[1])),
               count |-> Len(data[1])])

\* getStats(data); data is Null (null/undefined) or Some(sequence)
getStats(data) ==
  IF data = Null \/ Len(data[1]) = 0 THEN Null
  ELSE Some([min   |-> MathMin(data[1]),
             max   |-> MathMax(data[1]),
             avg   |-> Divide(Sum(data[1]), Len(data[1])),
             count |-> Len(data[1])])

StatsOf(series) == [name \in DOMAIN series |-> getStats(Some(series[name]))]

NewInteraction(name) ==
  [id |-> nextId, name |-> name, startTime |-> now, endTime |-> Null, duration |-> Null]

\* The subtraction with its operands exchanged.
FinalizedReversed(cur) ==
  [cur EXCEPT !.endTime = Some(now), !.duration = Some(cur.startTime - now)]

Finalized(cur) ==
  [cur EXCEPT !.endTime = Some(now), !.duration = Some(now - cur.startTime)]

BuildReport ==
  [interactions   |-> InteractionsArray,
   componentStats |-> StatsOf(componentLoadTimes),
   elementStats   |-> StatsOf(elementTimings),
   timestamp      |-> ToISOString(now)]

\* The interaction sequence a report shows to whoever reads it now.
ReportInteractions(report) ==
  IF report.interactions = InteractionsArray THEN interactions
  ELSE report.interactions.copy

Called(op) == lastOp' = op

\* startInteraction that finalizes the interaction in flight instead of
\* dropping it.
StartInteractionFinalizing(name) ==
  /\ nextId <= MaxStarts
  /\ interactions' = IF currentInteraction = Null THEN interactions
                     ELSE Append(interactions, Finalized(currentInteraction[1]))
  /\ currentInteraction' = Some(NewInteraction(name))
  /\ nextId' = nextId + 1
  /\ reportsSinceRecording' = 0
  /\ Called("startInteraction") /\ outcome' = "ok"
  /\ UNCHANGED <<now, componentLoadTimes, elementTimings, lastReport,
                 returned, componentCalls, elementCalls, lastStats, builderVars>>

StartInteraction(name) ==
  /\ nextId <= MaxStarts
  /\ currentInteraction' = Some(NewInteraction(name))
  /\ nextId' = nextId + 1
  /\ reportsSinceRecording' = 0
  /\ Called("startInteraction") /\ outcome' = "ok"
  /\ UNCHANGED <<now, interactions, componentLoadTimes, elementTimings, lastReport,
                 returned, componentCalls, elementCalls, lastStats, builderVars>>

\* endInteraction without its guard: with the slot empty, writing endTime
\* on null throws.
EndInteractionUnguarded ==
  /\ IF currentInteraction # Null
       THEN /\ interactions' = Append(interactions, Finalized(currentInteraction[1]))
            /\ currentInteraction' = Null
            /\ outcome' = "ok"
       ELSE UNCHANGED <<interactions, currentInteraction>> /\ outcome' = "TypeError"
  /\ reportsSinceRecording' = 0
  /\ Called("endInteraction")
  /\ UNCHANGED <<now, componentLoadTimes, elementTimings, nextId, lastReport, returned,
                 componentCalls, elementCalls, lastStats, builderVars>>

EndInteraction ==
  /\ IF currentInteraction # Null
       THEN /\ interactions' = Append(interactions, Finalized(currentInteraction[1]))
            /\ currentInteraction' = Null
       ELSE UNCHANGED <<interactions, currentInteraction>>
  /\ reportsSinceRecording' = 0
  /\ Called("endInteraction") /\ outcome' = "ok"
  /\ UNCHANGED <<now, componentLoadTimes, elementTimings, nextId, lastReport, returned,
                 componentCalls, elementCalls, lastStats, builderVars>>

\* The body shared by recordComponentLoad and recordElementTiming: the
\* series map after the call, or Null when push is called on an inherited
\* value, which has no push.
Record(series, name, duration) ==
  CASE Lookup(series, name) = "undefined" -> Some(series @@ (name :> <<duration>>))
    [] Lookup(series, name) = "array"     -> Some([series EXCEPT ![name] = Append(@, duration)])
    [] OTHER                              -> Null

RECURSIVE LenSum(_, _)
LenSum(calls, names) ==
  IF names = {} THEN 0
  ELSE LET n == CHOOSE x \in names : TRUE
       IN Len(calls[n]) + LenSum(calls, names \ {n})

\* recording calls made so far (the bound of a run)
SamplesCalled == LenSum(componentCalls, SeriesNames) + LenSum(elementCalls, SeriesNames)

RecordComponentLoad(name, duration) ==
  LET after == Record(componentLoadTimes, name, duration) IN
  /\ SamplesCalled < MaxSamples
  /\ componentCalls' = [componentCalls EXCEPT ![name] = Append(@, duration)]
  /\ IF after # Null
       THEN componentLoadTimes' = after[1] /\ outcome' = "ok"
       ELSE UNCHANGED componentLoadTimes /\ outcome' = "TypeError"
  /\ reportsSinceRecording' = 0
  /\ Called("recordComponentLoad")
  /\ UNCHANGED <<now, interactions, currentInteraction, elementTimings, nextId,
                 lastReport, returned, elementCalls, lastStats, builderVars>>

RecordElementTiming(name, duration) ==
  LET after == Record(elementTimings, name, duration) IN
  /\ SamplesCalled < MaxSamples
  /\ elementCalls' = [elementCalls EXCEPT ![name] = Append(@, duration)]
  /\ IF after # Null
       THEN elementTimings' = after[1] /\ outcome' = "ok"
       ELSE UNCHANGED elementTimings /\ outcome' = "TypeError"
  /\ reportsSinceRecording' = 0
  /\ Called("recordElementTiming")
  /\ UNCHANGED <<now, interactions, currentInteraction, componentLoadTimes, nextId,
                 lastReport, returned, componentCalls, lastStats, builderVars>>

\* A direct call of getStats by the caller: on null, on an empty series or on
\* one of the recorded series.
StatsArguments ==
  {Null, Some(<<>>)} \cup {Some(componentLoadTimes[n]) : n \in DOMAIN componentLoadTimes}
                     \cup {Some(elementTimings[n]) : n \in DOMAIN elementTimings}

GetStats(data) ==
  /\ lastStats' = Some([argument |-> data, result |-> getStats(data)])
  /\ Called("getStats") /\ outcome' = "ok"
  /\ UNCHANGED <<now, interactions, currentInteraction, componentLoadTimes,
                 elementTimings, nextId, lastReport, returned, componentCalls,
                 elementCalls, reportsSinceRecording, builderVars>>

\* generatePerformanceReport that empties the component series once reported.
GeneratePerformanceReportFlushing ==
  /\ lastReport' = Some(BuildReport)
  /\ returned' = interactions
  /\ componentLoadTimes' = <<>>
  /\ reportsSinceRecording' = IF reportsSinceRecording = 0 THEN 1 ELSE 2
  /\ Called("generatePerformanceReport") /\ outcome' = "ok"
  /\ UNCHANGED <<now, interactions, currentInteraction, elementTimings, nextId,
                 componentCalls, elementCalls, lastStats, builderVars>>

GeneratePerformanceReport ==
  /\ lastReport' = Some(BuildReport)
  /\ returned' = interactions
  /\ reportsSinceRecording' = IF reportsSinceRecording = 0 THEN 1 ELSE 2
  /\ Called("generatePerformanceReport") /\ outcome' = "ok"
  /\ UNCHANGED <<now, interactions, currentInteraction, componentLoadTimes,
                 elementTimings, nextId, componentCalls, elementCalls, lastStats,
                 builderVars>>

\* Time passes between two calls; the clock never runs backwards.
Tick ==
  /\ now < MaxClock
  /\ now' = now + 1
  /\ UNCHANGED <<metricsVars, builderVars, lastOp, outcome>>

\* ----------------------------------------------------- HTMLReportGenerator
ScreenshotInputs ==
  { [name |-> "login", dataUrl |-> "imgA"], [name |-> "dashboard", dataUrl |-> "imgB"] }
ValidationInputs ==
  { [total |-> 10, successful |-> 7, failed |-> 2, skipped |-> 1],
    [total |-> 3,  successful |-> 3, failed |-> 0, skipped |-> 0] }

\* `${value}` in a template literal
Interpolate(v) == ToString(v)

RECURSIVE Join(_)
Join(parts) == IF parts = <<>> THEN <<>> ELSE Head(parts) \o Join(Tail(parts))

GalleryItem(s) ==
  << "<img src=", s.dataUrl, " onclick=modalImage.src=", s.dataUrl, ">" >>

\* The template of generateReportHTML as its fragments in document order;
\* results is the object validationResults refers to.
RenderHTML(shots, perf, results) ==
  << "<h1>Validation Report</h1>", "<h2>Validation Summary</h2>",
     "<th>Total Checks</th>", Interpolate(results.total),
     "<th>Successful</th>",   Interpolate(results.successful),
     "<th>Failed</th>",       Interpolate(results.failed),
     "<th>Skipped</th>",      Interpolate(results.skipped),
     "<h2>Performance Metrics</h2>", "<canvas componentLoadChart>",
     "<canvas interactionChart>", "<h2>Screenshots</h2>", "<gallery>" >>
  \o Join([i \in DOMAIN shots |-> GalleryItem(shots[i])])
  \o << "</gallery>", "<div screenshotModal>", "summaryChart data",
        Interpolate(results.successful), Interpolate(results.failed),
        Interpolate(results.skipped), "</html>" >>

\* generateReportHTML reading the fields with ?. : no results, no error, and
\* a document of undefined values.
generateReportHTMLOptional ==
  Some(RenderHTML(screenshots, performanceData,
         IF validationResults # Null THEN validationResults[1]
         ELSE [total |-> "undefined", successful |-> "undefined",
               failed |-> "undefined", skipped |-> "undefined"]))

\* generateReportHTML(): Some(document), or Null when reading .total of null
\* throws a TypeError.
generateReportHTML ==
  IF validationResults = Null THEN Null
  ELSE Some(RenderHTML(screenshots, performanceData, validationResults[1]))

\* addScreenshot with unshift in place of push.
AddScreenshotFirst(name, dataUrl) ==
  /\ Len(screenshots) < MaxScreenshots
  /\ screenshots' = << [name |-> name, dataUrl |-> dataUrl,
                        timestamp |-> ToISOString(now)] >> \o screenshots
  /\ Called("addScreenshot") /\ outcome' = "ok"
  /\ UNCHANGED <<now, metricsVars, performanceData, validationResults, document, download>>

AddScreenshot(name, dataUrl) ==
  /\ Len(screenshots) < MaxScreenshots
  /\ screenshots' = Append(screenshots,
        [name |-> name, dataUrl |-> dataUrl, timestamp |-> ToISOString(now)])
  /\ Called("addScreenshot") /\ outcome' = "ok"
  /\ UNCHANGED <<now, metricsVars, performanceData, validationResults, document, download>>

SetPerformanceData(data) ==
  /\ performanceData' = Some(data)
  /\ Called("setPerformanceData") /\ outcome' = "ok"
  /\ UNCHANGED <<now, metricsVars, screenshots, validationResults, document, download>>

SetValidationResults(results) ==
  /\ validationResults' = Some(results)
  /\ Called("setValidationResults") /\ outcome' = "ok"
  /\ UNCHANGED <<now, metricsVars, screenshots, performanceData, document, download>>

GenerateReportHTML ==
  /\ document' = generateReportHTML
  /\ outcome' = IF generateReportHTML = Null THEN "TypeError" ELSE "ok"
  /\ Called("generateReportHTML")
  /\ UNCHANGED <<now, metricsVars, screenshots, performanceData, validationResults, download>>

DownloadReport ==
  /\ IF generateReportHTML = Null
       THEN outcome' = "TypeError" /\ UNCHANGED download
       ELSE /\ outcome' = "ok"
            /\ download' = Some([name |-> << "validation_report_",
                                             DatePart(ToISOString(now)), ".html" >>,
                                 html |-> generateReportHTML[1]])
  /\ Called("downloadReport")
  /\ UNCHANGED <<now, metricsVars, screenshots, performanceData, validationResults, document>>

\* Reports a caller can hand to setPerformanceData: what
\* generatePerformanceReport returns for two different recordings.
PerformanceInputs ==
  { [interactions   |-> InteractionsArray,
     componentStats |-> StatsOf("header" :> <<d>>),
     elementStats   |-> StatsOf("footer" :> <<d, 1>>),
     timestamp      |-> ToISOString(0)] : d \in Durations }

\* ------------------------------------------------------------------ states
NoCalls == [name \in SeriesNames |-> <<>>]

NoInteractions ==
  /\ interactions = <<>>
  /\ currentInteraction = Null
  /\ nextId = 1

NoSamples ==
  /\ componentLoadTimes = <<>>
  /\ elementTimings = <<>>
  /\ componentCalls = NoCalls
  /\ elementCalls = NoCalls

NothingReturned ==
  /\ now = 0
  /\ lastReport = Null
  /\ returned = <<>>
  /\ reportsSinceRecording = 0
  /\ lastStats = Null
  /\ outcome = "ok"

NewBuilder ==
  /\ screenshots = <<>>
  /\ performanceData = Null
  /\ validationResults = Null
  /\ document = Null
  /\ download = Null

\* The state after both constructors.
Constructed ==
  /\ NoInteractions /\ NoSamples /\ NothingReturned /\ NewBuilder
  /\ lastOp = "constructor"

\* The collector after recordComponentLoad("header", 1),
\* recordComponentLoad("header", 2), recordElementTiming("footer", 2).
AfterSamples ==
  /\ NoInteractions /\ NothingReturned /\ NewBuilder
  /\ componentLoadTimes = ("header" :> <<1, 2>>)
  /\ elementTimings = ("footer" :> <<2>>)
  /\ componentCalls = [NoCalls EXCEPT !["header"] = <<1, 2>>]
  /\ elementCalls = [NoCalls EXCEPT !["footer"] = <<2>>]
  /\ lastOp = "recordElementTiming"

Init == Constructed

NextInteractions ==
  \/ \E name \in InteractionNames : StartInteraction(name)
  \/ EndInteraction
  \/ GeneratePerformanceReport
  \/ lastReport # Null /\ SetPerformanceData(lastReport[1])
  \/ Tick

NextSamples ==
  \/ \E name \in SeriesNames, duration \in Durations : RecordComponentLoad(name, duration)
  \/ \E name \in SeriesNames, duration \in Durations : RecordElementTiming(name, duration)
  \/ \E data \in StatsArguments : GetStats(data)
  \/ GeneratePerformanceReport

NextBuilder ==
  \/ \E shot \in ScreenshotInputs : AddScreenshot(shot.name, shot.dataUrl)
  \/ \E data \in PerformanceInputs : SetPerformanceData(data)
  \/ \E results \in ValidationInputs : SetValidationResults(results)
  \/ GenerateReportHTML
  \/ DownloadReport
  \/ Tick

\* The interaction timer and the hand-over of its report, on a collector
\* that is new or already holds samples.
SpecInteractions == (Constructed \/ AfterSamples) /\ [][NextInteractions]_vars
\* The sample series and their statistics.
SpecSamples == Init /\ [][NextSamples]_vars
\* The report builder.
SpecBuilder == Init /\ [][NextBuilder]_vars

\* ------------------------------------------------------------------ claims
HistoryIds == {interactions[i].id : i \in DOMAIN interactions}
Started == 1..(nextId - 1)
InSlot(id) == currentInteraction # Null /\ currentInteraction[1].id = id

\* A started interaction that is neither in the slot nor in the history.
Lost(id) == id \in Started /\ id \notin HistoryIds /\ ~InSlot(id)

StartStep == lastOp' = "startInteraction" /\ nextId' = nextId + 1
EndStep == lastOp' = "endInteraction" /\ now' = now

OneSlot ==
  /\ Cardinality(HistoryIds) = Len(interactions)
  /\ \A id \in Started : ~(InSlot(id) /\ id \in HistoryIds)
  /\ Cardinality({id \in Started : ~Lost(id) /\ id \notin HistoryIds}) <= 1

OverwriteLoses ==
  /\ StartStep
       => interactions' = interactions /\ \A id \in Started : InSlot(id) => Lost(id)'
  /\ EndStep /\ currentInteraction # Null
       => /\ Len(interactions') = Len(interactions) + 1
          /\ SubSeq(interactions', 1, Len(interactions)) = interactions
          /\ interactions'[Len(interactions')].id = currentInteraction[1].id
  /\ \A id \in Started : Lost(id) => Lost(id)'

\* C1: a startInteraction made while another interaction is in flight appends
\* nothing and loses the interaction it replaces; the endInteraction that
\* follows appends exactly one record, that of the interaction in the slot; a
\* lost interaction is never appended later; and no interaction is at once in
\* flight and in the history, each record being appended once.
C1_OverwriteLosesFirst == []OneSlot /\ [][OverwriteLoses]_vars

\* start(a), start(b), end: the history holds the record of b alone.
C1_Witness ==
  /\ lastOp = "endInteraction"
  /\ Len(interactions) = 1
  /\ interactions[1].id = 2
  /\ currentInteraction = Null

StatsAsClaimed(calls, stats) ==
  /\ DOMAIN stats = {n \in SeriesNames : calls[n] # <<>>}
  /\ \A n \in DOMAIN stats :
       /\ stats[n] # Null
       /\ stats[n][1].min \in Range(calls[n])
       /\ \A x \in Range(calls[n]) : stats[n][1].min <= x /\ x <= stats[n][1].max
       /\ stats[n][1].max \in Range(calls[n])
       /\ stats[n][1].avg.num * Len(calls[n]) = Sum(calls[n]) * stats[n][1].avg.den
       /\ stats[n][1].count = Len(calls[n])

\* C2: a report just returned has, for every name recordComponentLoad (resp.
\* recordElementTiming) was called with, and for no other name, the minimum,
\* maximum, average and count of the durations passed for that name.
C2_ReportReflectsCalls ==
  lastOp = "generatePerformanceReport" =>
    /\ StatsAsClaimed(componentCalls, lastReport[1].componentStats)
    /\ StatsAsClaimed(elementCalls, lastReport[1].elementStats)

\* The same for the names that are not keys of Object.prototype.
OwnCalls(calls) == [n \in SeriesNames |-> IF n \in OwnNames THEN calls[n] ELSE <<>>]
ReportReflectsOwnNames ==
  lastOp = "generatePerformanceReport" =>
    /\ StatsAsClaimed(OwnCalls(componentCalls), lastReport[1].componentStats)
    /\ StatsAsClaimed(OwnCalls(elementCalls), lastReport[1].elementStats)

\* C3: the interaction sequence of the report returned last, also as held by
\* the report builder, is the one it had when it was returned.
C3_ReportIsSnapshot ==
  lastReport # Null =>
    /\ ReportInteractions(lastReport[1]) = returned
    /\ performanceData = lastReport => ReportInteractions(performanceData[1]) = returned

\* C4: while setValidationResults has not been called (validationResults is
\* still null, no input being null), generateReportHTML and downloadReport end
\* with an error, no document has been returned and no file delivered.
C4_NoResultsNoDocument ==
  validationResults = Null =>
    /\ document = Null
    /\ download = Null
    /\ lastOp \in {"generateReportHTML", "downloadReport"} => outcome = "TypeError"

C4_Witness ==
  /\ lastOp = "generateReportHTML"
  /\ validationResults = Null
  /\ screenshots # <<>>
  /\ performanceData # Null

IdleEnd == EndStep /\ currentInteraction = Null

\* C5: an endInteraction call made with the slot empty ends normally and
\* leaves history, slot and both series as they were; a record is in the
\* history once.
C5_IdleEndIsNoOp ==
  [][IdleEnd => outcome' = "ok" /\ UNCHANGED collector]_vars
    /\ [](Cardinality(HistoryIds) = Len(interactions))

\* endInteraction before any startInteraction, on a collector holding samples
C5_Witness ==
  /\ lastOp = "endInteraction"
  /\ nextId = 1
  /\ interactions = <<>>
  /\ componentLoadTimes # <<>>
  /\ elementTimings # <<>>

WellTimed(r) ==
  /\ r.endTime # Null /\ r.duration # Null
  /\ r.endTime[1] >= r.startTime
  /\ r.duration[1] = r.endTime[1] - r.startTime
  /\ r.duration[1] >= 0

HistoryTimed ==
  /\ \A i \in DOMAIN interactions : WellTimed(interactions[i])
  /\ \A i, j \in DOMAIN interactions : i < j => interactions[i].endTime[1] <= interactions[j].endTime[1]

CompletionOrder ==
  interactions' # interactions =>
    /\ EndStep
    /\ Len(interactions') = Len(interactions) + 1
    /\ SubSeq(interactions', 1, Len(interactions)) = interactions
    /\ interactions'[Len(interactions')].endTime = Some(now)

\* C6: every record of the history has endTime >= startTime and
\* duration = endTime - startTime >= 0, both present; the history changes only
\* by an endInteraction appending at its end the record it finalizes at the
\* current time, so it is in completion order.
C6_HistoryTimedAndOrdered == []HistoryTimed /\ [][CompletionOrder]_vars

C6_Witness ==
  /\ Len(interactions) = 2
  /\ interactions[1].duration[1] > 0
  /\ interactions[2].startTime > interactions[1].startTime

ReportStep == lastOp' = "generatePerformanceReport" /\ now' = now

\* Two reports that hold the same array show the same interactions.
SameButTimestamp(r1, r2) ==
  /\ r1.interactions = r2.interactions
  /\ r1.componentStats = r2.componentStats
  /\ r1.elementStats = r2.elementStats

\* C7: generatePerformanceReport leaves history, slot and both series as they
\* were, and a report returned with no recording call since the previous
\* report equals it in interactions, component statistics and element
\* statistics.
C7_ReportIsRepeatable ==
  [][ReportStep =>
       /\ UNCHANGED collector
       /\ reportsSinceRecording >= 1 =>
            /\ SameButTimestamp(lastReport[1], lastReport'[1])
            /\ returned' = returned]_vars

\* two reports with nothing recorded between them, at different times
C7_Witness ==
  /\ lastOp = "generatePerformanceReport"
  /\ reportsSinceRecording = 2
  /\ lastReport[1].timestamp # ToISOString(0)
  /\ DOMAIN lastReport[1].componentStats # {}
  /\ interactions # <<>>
  /\ currentInteraction # Null

RECURSIVE GallerySources(_)
GallerySources(doc) ==
  IF Len(doc) < 2 THEN <<>>
  ELSE IF doc[1] = "<img src=" THEN <<doc[2]>> \o GallerySources(Tail(Tail(doc)))
  ELSE GallerySources(Tail(doc))

DataUrlsOf(shots) == [i \in DOMAIN shots |-> shots[i].dataUrl]

GalleryInOrder ==
  document # Null =>
    /\ Len(GallerySources(document[1])) <= Len(screenshots)
    /\ GallerySources(document[1])
         = SubSeq(DataUrlsOf(screenshots), 1, Len(GallerySources(document[1])))
    /\ lastOp = "generateReportHTML" =>
         GallerySources(document[1]) = DataUrlsOf(screenshots)

AppendOnly ==
  \/ screenshots' = screenshots
  \/ /\ lastOp' = "addScreenshot"
     /\ Len(screenshots') = Len(screenshots) + 1
     /\ SubSeq(screenshots', 1, Len(screenshots)) = screenshots

\* C8: the screenshot sequence changes only by addScreenshot appending one
\* entry at its end, and the gallery of a document lists the data URLs of the
\* screenshots in the order they were added.
C8_ScreenshotsAppendOnly == []GalleryInOrder /\ [][AppendOnly]_vars

C8_Witness ==
  /\ lastOp = "generateReportHTML"
  /\ document # Null
  /\ Len(screenshots) = 2
  /\ screenshots[1].dataUrl # screenshots[2].dataUrl
  /\ performanceData # Null

\* C9: the document just returned differs from the one the same screenshots
\* and validation results give with a performance report of other component
\* or element statistics.
C9_DocumentShowsStatistics ==
  (lastOp = "generateReportHTML" /\ document # Null /\ performanceData # Null) =>
    \A p \in PerformanceInputs :
      (p.componentStats # performanceData[1].componentStats
         \/ p.elementStats # performanceData[1].elementStats)
        => RenderHTML(screenshots, Some(p), validationResults[1]) # document[1]

NamedStatsPresent(stats) ==
  \A n \in DOMAIN stats : stats[n] # Null /\ stats[n][1].count >= 1

\* C10: getStats of null or of an empty series ends normally with null, every
\* series holds at least one sample, and every name of a report's component
\* or element statistics has a summary with count >= 1.
C10_EmptySeriesAbsent ==
  /\ lastStats # Null /\ lastStats[1].argument \in {Null, Some(<<>>)}
       => lastStats[1].result = Null
  /\ lastOp = "getStats" => outcome = "ok"
  /\ \A n \in DOMAIN componentLoadTimes : Len(componentLoadTimes[n]) >= 1
  /\ \A n \in DOMAIN elementTimings : Len(elementTimings[n]) >= 1
  /\ lastReport # Null =>
       /\ NamedStatsPresent(lastReport[1].componentStats)
       /\ NamedStatsPresent(lastReport[1].elementStats)

C10_Witness ==
  /\ lastOp = "getStats"
  /\ lastStats[1].argument = Some(<<>>)
  /\ lastReport # Null
  /\ DOMAIN lastReport[1].componentStats = OwnNames
  /\ DOMAIN lastReport[1].elementStats # {}

====
